---- MODULE Spec2Model ----
(***************************************************************************)
(* Model of contracts/ForestFireRiskFHE.sol: the encrypted-record store,   *)
(* the decryption request/callback pair and the category tally.            *)
(* Every transaction is atomic: a revert leaves the contract storage and   *)
(* the event log untouched; only the transaction receipt (last) records    *)
(* the call and its outcome.                                               *)
(* The second part models frontend/web/src/App.tsx: submitRecord and       *)
(* loadRecords of several browser clients over the shared key-value store, *)
(* and the view switcher of one App instance.                              *)
(***************************************************************************)
EXTENDS Integers, Sequences, FiniteSets, TLC

(* ------------------------------ bounds --------------------------------- *)

\* number of submitEncryptedData calls explored
MaxData == 2

\* number of oracle requests explored (FHE.requestDecryption calls)
MaxReq == 2

\* number of allocating transactions explored: submits plus oracle requests
MaxOps == 3

\* largest block timestamp explored
MaxTime == 1

\* number of browser clients, each running one submitRecord
MaxClients == 2

(* --------------------------- value domains ----------------------------- *)

\* category labels a caller may pass to requestRiskCategoryDecryption
Labels == {"High", "Low"}

\* uint256(keccak256(abi.encodePacked("High"))), an opaque non-zero word far
\* above every dataCount the model reaches
HashHigh == 1000001

\* uint256(keccak256(abi.encodePacked("Low")))
HashLow == 1000002

\* keccak256(abi.encodePacked(s)): injective on the labels, never zero
keccak256(s) == IF s = "High" THEN HashHigh ELSE HashLow

\* bytes32ToUint: uint256(b), the same word read as an integer
bytes32ToUint(b) == b

\* the keys of encryptedDataset / decryptedDataset the model can touch
DataIds == (0..MaxData) \cup {bytes32ToUint(keccak256("High"))}

\* request identifiers a callback may carry; 1..MaxReq are issued by the oracle
RequestIds == 0..MaxReq

\* the four euint32 handles a submitter passes, named by the hidden plaintexts
HandleInputs == {<<11, 12, 13, 14>>}

\* abi-encoded string[] payloads
StringArrays ==
    { <<"20", "55", "0.3", "2">>,
      <<"20", "55", "0.3">> }

\* the bytes a callback may carry: an encoded string[] or an encoded uint32
Cleartexts ==
    { [kind |-> "string[]", arr |-> a, num |-> 0] : a \in StringArrays }
    \cup { [kind |-> "uint32", arr |-> <<>>, num |-> n] : n \in {1} }

\* a proof is a signature over one (requestId, cleartexts) pair
Proofs == [rid : RequestIds, clear : Cleartexts]

\* the proofs offered with a callback: the signature over its own pair and a
\* signature over the same payload under the next request id
ProofsFor(requestId, cleartexts) ==
    {p \in Proofs : /\ p.clear = cleartexts
                    /\ p.rid \in {requestId, (requestId + 1) % (MaxReq + 1)}}

(* ---------------------------- zero values ------------------------------ *)

\* an euint32 storage slot: handle 0 (not initialised) or a ciphertext of plain
ZeroEuint32 == [initialized |-> FALSE, plain |-> 0]

ZeroEncryptedData ==
    [id |-> 0, encryptedTemperature |-> ZeroEuint32,
     encryptedHumidity |-> ZeroEuint32, encryptedVegetation |-> ZeroEuint32,
     encryptedHistoricalFires |-> ZeroEuint32, timestamp |-> 0]

ZeroDecryptedData ==
    [temperature |-> "", humidity |-> "", vegetation |-> "",
     historicalFires |-> "", isRevealed |-> FALSE]

\* the oracle has registered nothing under a request id
NoOracleRequest == [selector |-> "", ciphertexts |-> <<>>]

(* ------------------------------- state --------------------------------- *)

VARIABLES
    dataCount,                  \* uint256 public dataCount
    encryptedDataset,           \* mapping(uint256 => EncryptedData)
    decryptedDataset,           \* mapping(uint256 => DecryptedData)
    encryptedRiskCategoryCount, \* mapping(string => euint32)
    riskCategories,             \* string[]
    requestToDataId,            \* mapping(uint256 => uint256)
    nextRequestId,              \* the oracle's next unused request id
    oracleRequests,             \* what the oracle registered per request id
    log,                        \* the ordered event log
    blockTimestamp,             \* block.timestamp of the latest block
    resolutions,                \* per request id: callbacks that changed state
    last                        \* receipt of the latest transaction

storage == <<dataCount, encryptedDataset, decryptedDataset,
             encryptedRiskCategoryCount, riskCategories, requestToDataId>>

contractState == <<storage, nextRequestId, oracleRequests, log>>

\* the contract side: storage, oracle, log, clock and receipts
contractVars == <<dataCount, encryptedDataset, decryptedDataset,
                  encryptedRiskCategoryCount, riskCategories, requestToDataId,
                  nextRequestId, oracleRequests, log, blockTimestamp,
                  resolutions, last>>

VARIABLES
    chainData,   \* the store behind contract.getData / contract.setData
    pc,          \* per client: the await its submitRecord stands at
    keys,        \* per client: the local keys array of submitRecord
    records,     \* per client: the ids in the React state records
    showIntro,   \* useState(true)
    mapView,     \* useState(false)
    faqOpen      \* useState(false)

\* the frontend side
frontendVars == <<chainData, pc, keys, records, showIntro, mapView, faqOpen>>

vars == <<dataCount, encryptedDataset, decryptedDataset,
          encryptedRiskCategoryCount, riskCategories, requestToDataId,
          nextRequestId, oracleRequests, log, blockTimestamp, resolutions,
          last, chainData, pc, keys, records, showIntro, mapView, faqOpen>>

\* the browser clients; a client's recordId is its own number, Date.now()
\* plus a random suffix being distinct per submitRecord
Clients == 1..MaxClients

\* bytes of length 0, what getData returns for a key never set
EmptyBytes == [length |-> 0, json |-> <<>>]

\* ethers.toUtf8Bytes(JSON.stringify(v)) for an array v: never empty, "[]"
\* already has two characters
toUtf8BytesJSON(v) == [length |-> 2 + Len(v), json |-> v]

\* JSON.parse(ethers.toUtf8String(b)) of bytes written by toUtf8BytesJSON
parseJSON(b) == b.json

\* the keys of the store: "risk_keys" and `risk_${recordId}`
RiskKeys == [kind |-> "risk_keys", id |-> 0]

RiskKey(recordId) == [kind |-> "risk_", id |-> recordId]

DataKeys == {RiskKeys} \cup {RiskKey(c) : c \in Clients}

\* DataSubmitted emitted without block.timestamp
DataSubmittedEventNoTimestamp(d, t) ==
    [name |-> "DataSubmitted", id |-> d, timestamp |-> 0]

\* event DataSubmitted(uint256 indexed id, uint256 timestamp)
DataSubmittedEvent(d, t) == [name |-> "DataSubmitted", id |-> d, timestamp |-> t]

\* DecryptionRequested emitted without the record id
DecryptionRequestedEventNoId(d) ==
    [name |-> "DecryptionRequested", id |-> 0, timestamp |-> 0]

\* event DecryptionRequested(uint256 indexed id)
DecryptionRequestedEvent(d) ==
    [name |-> "DecryptionRequested", id |-> d, timestamp |-> 0]

\* event DataDecrypted(uint256 indexed id)
DataDecryptedEvent(d) == [name |-> "DataDecrypted", id |-> d, timestamp |-> 0]

\* the receipt of a transaction: the call, its id or label argument, whether
\* the call ran FHE.checkSignatures and passed it, and "ok" or the revert reason
Receipt(op, id, category, verified, result) ==
    [op |-> op, id |-> id, category |-> category, verified |-> verified,
     result |-> result]

Init ==
    /\ dataCount = 0
    /\ encryptedDataset = [d \in DataIds |-> ZeroEncryptedData]
    /\ decryptedDataset = [d \in DataIds |-> ZeroDecryptedData]
    /\ encryptedRiskCategoryCount = [l \in Labels |-> ZeroEuint32]
    /\ riskCategories = <<>>
    /\ requestToDataId = [r \in RequestIds |-> 0]
    /\ nextRequestId = 1
    /\ oracleRequests = [r \in RequestIds |-> NoOracleRequest]
    /\ log = <<>>
    /\ blockTimestamp = 1
    /\ resolutions = [r \in RequestIds |-> 0]
    /\ last = Receipt("constructor", 0, "", FALSE, "ok")
    /\ chainData = [k \in DataKeys |-> EmptyBytes]
    /\ pc = [c \in Clients |-> "idle"]
    /\ keys = [c \in Clients |-> <<>>]
    /\ records = [c \in Clients |-> {}]
    /\ showIntro = TRUE
    /\ mapView = FALSE
    /\ faqOpen = FALSE

(* ------------------------ FHE library primitives ----------------------- *)

\* FHE.isInitialized answering false for every handle
isInitializedNever(e) == FALSE

\* FHE.isInitialized(euint32)
isInitialized(e) == e.initialized

\* FHE.asEuint32(n): a fresh ciphertext of n
asEuint32(n) == [initialized |-> TRUE, plain |-> n]

\* FHE.add(a, b): homomorphic addition of the two plaintexts
add(a, b) == [initialized |-> TRUE, plain |-> a.plain + b.plain]

\* what the oracle signs: a decryption of the ciphertexts registered under
\* rid, encoded as the registered callback expects it (the four fields as a
\* string[], a tally as its uint32 plaintext)
authentic(rid, clear) ==
    LET req == oracleRequests[rid] IN
    \/ req.selector = "decryptData" /\ clear.kind = "string[]"
    \/ /\ req.selector = "decryptRiskCategory"
       /\ clear.kind = "uint32"
       /\ clear.num = req.ciphertexts[1].plain

\* FHE.checkSignatures: passes iff the proof is the oracle's signature over
\* exactly this (requestId, cleartexts) pair
checkSignatures(requestId, cleartexts, proof) ==
    /\ authentic(proof.rid, proof.clear)
    /\ proof.rid = requestId
    /\ proof.clear = cleartexts

\* abi.decode(cleartexts, (string[])): an encoded uint32 n is read as the
\* offset of the array; only n = 0 is in range and yields an empty array
abiDecodeStringArray(cleartexts) ==
    IF cleartexts.kind = "string[]" THEN [ok |-> TRUE, arr |-> cleartexts.arr]
    ELSE IF cleartexts.num = 0 THEN [ok |-> TRUE, arr |-> <<>>]
    ELSE [ok |-> FALSE, arr |-> <<>>]

\* abi.decode(cleartexts, (uint32)): the first word; for an encoded string[]
\* that word is the array offset 0x20
abiDecodeUint32(cleartexts) ==
    IF cleartexts.kind = "uint32" THEN [ok |-> TRUE, num |-> cleartexts.num]
    ELSE [ok |-> TRUE, num |-> 32]

(* --------------------------- Record Store ------------------------------ *)

\* newId read before the increment instead of after it
newIdBeforeIncrement == dataCount

\* uint256 newId = dataCount after dataCount += 1
newId == dataCount + 1

\* allocating transactions so far: every submit takes a record id, every
\* oracle request a request id
allocations == dataCount + (nextRequestId - 1)

submitEncryptedData(h, t) ==
    /\ dataCount < MaxData
    /\ allocations < MaxOps
    /\ blockTimestamp' = t
    /\ dataCount' = newId
    /\ encryptedDataset' = [encryptedDataset EXCEPT ![newId] =
            [id |-> newId,
             encryptedTemperature |-> asEuint32(h[1]),
             encryptedHumidity |-> asEuint32(h[2]),
             encryptedVegetation |-> asEuint32(h[3]),
             encryptedHistoricalFires |-> asEuint32(h[4]),
             timestamp |-> t]]
    /\ decryptedDataset' = [decryptedDataset EXCEPT ![newId] = ZeroDecryptedData]
    /\ log' = Append(log, DataSubmittedEvent(newId, t))
    /\ last' = Receipt("submitEncryptedData", newId, "", FALSE, "ok")
    /\ UNCHANGED <<encryptedRiskCategoryCount, riskCategories, requestToDataId,
                   nextRequestId, oracleRequests, resolutions>>

\* the five fields getDecryptedData returns from a slot of the given mapping
getDecryptedDataIn(dataset, dataId) ==
    LET r == dataset[dataId] IN
    <<r.temperature, r.humidity, r.vegetation, r.historicalFires, r.isRevealed>>

\* getDecryptedData(dataId), a view of the current storage
getDecryptedData(dataId) == getDecryptedDataIn(decryptedDataset, dataId)

(* ----------------------- Decryption Coordinator ------------------------ *)

\* requestDataDecryption with its require left out
requestDataDecryptionNoGuard(dataId) == ""

\* the require of requestDataDecryption: "" when the call goes through
requestDataDecryptionRevert(dataId) ==
    IF decryptedDataset[dataId].isRevealed THEN "Already decrypted" ELSE ""

\* FHE.requestDecryption(ciphertexts, selector): registers the request with
\* the oracle under the next unused request id
requestDecryption(ciphertexts, selector) ==
    /\ nextRequestId <= MaxReq
    /\ allocations < MaxOps
    /\ oracleRequests' = [oracleRequests EXCEPT ![nextRequestId] =
            [selector |-> selector, ciphertexts |-> ciphertexts]]
    /\ nextRequestId' = nextRequestId + 1

requestDataDecryption(dataId) ==
    LET data == encryptedDataset[dataId]
        why == requestDataDecryptionRevert(dataId)
        ciphertexts == <<data.encryptedTemperature, data.encryptedHumidity,
                         data.encryptedVegetation, data.encryptedHistoricalFires>>
        reqId == nextRequestId
    IN
    IF why # "" THEN
        /\ last' = Receipt("requestDataDecryption", dataId, "", FALSE, why)
        /\ UNCHANGED <<contractState, blockTimestamp, resolutions>>
    ELSE
        /\ requestDecryption(ciphertexts, "decryptData")
        /\ requestToDataId' = [requestToDataId EXCEPT ![reqId] = dataId]
        /\ log' = Append(log, DecryptionRequestedEvent(dataId))
        /\ last' = Receipt("requestDataDecryption", dataId, "", FALSE, "ok")
        /\ UNCHANGED <<dataCount, encryptedDataset, decryptedDataset,
                       encryptedRiskCategoryCount, riskCategories,
                       blockTimestamp, resolutions>>

\* computeRiskCategory: the placeholder classifier
computeRiskCategory(dData) == "High"

\* decryptData without require(!dData.isRevealed)
decryptDataNoReplayGuard(requestId, cleartexts, proof) ==
    LET dataId == requestToDataId[requestId] IN
    IF dataId = 0 THEN "Invalid request"
    ELSE IF ~checkSignatures(requestId, cleartexts, proof) THEN "Invalid signature"
    ELSE IF ~abiDecodeStringArray(cleartexts).ok THEN "abi.decode"
    ELSE IF Len(abiDecodeStringArray(cleartexts).arr) < 4 THEN "Panic(0x32)"
    ELSE ""

\* decryptData without require(dataId != 0)
decryptDataNoRequestGuard(requestId, cleartexts, proof) ==
    LET dataId == requestToDataId[requestId] IN
    IF decryptedDataset[dataId].isRevealed THEN "Already decrypted"
    ELSE IF ~checkSignatures(requestId, cleartexts, proof) THEN "Invalid signature"
    ELSE IF ~abiDecodeStringArray(cleartexts).ok THEN "abi.decode"
    ELSE IF Len(abiDecodeStringArray(cleartexts).arr) < 4 THEN "Panic(0x32)"
    ELSE ""

\* decryptData without FHE.checkSignatures
decryptDataNoSignatureCheck(requestId, cleartexts, proof) ==
    LET dataId == requestToDataId[requestId] IN
    IF dataId = 0 THEN "Invalid request"
    ELSE IF decryptedDataset[dataId].isRevealed THEN "Already decrypted"
    ELSE IF ~abiDecodeStringArray(cleartexts).ok THEN "abi.decode"
    ELSE IF Len(abiDecodeStringArray(cleartexts).arr) < 4 THEN "Panic(0x32)"
    ELSE ""

\* the requires, the signature check and the decoding of decryptData, in the
\* order the code runs them: "" when the call goes through
decryptDataRevert(requestId, cleartexts, proof) ==
    LET dataId == requestToDataId[requestId] IN
    IF dataId = 0 THEN "Invalid request"
    ELSE IF decryptedDataset[dataId].isRevealed THEN "Already decrypted"
    ELSE IF ~checkSignatures(requestId, cleartexts, proof) THEN "Invalid signature"
    ELSE IF ~abiDecodeStringArray(cleartexts).ok THEN "abi.decode"
    ELSE IF Len(abiDecodeStringArray(cleartexts).arr) < 4 THEN "Panic(0x32)"
    ELSE ""

\* the stores into dData with results[0] and results[1] exchanged
revealedSwapped(results) ==
    [temperature |-> results[2], humidity |-> results[1],
     vegetation |-> results[3], historicalFires |-> results[4],
     isRevealed |-> TRUE]

\* the four string stores without dData.isRevealed = true
revealedFlagUnset(results) ==
    [temperature |-> results[1], humidity |-> results[2],
     vegetation |-> results[3], historicalFires |-> results[4],
     isRevealed |-> FALSE]

\* the five stores into dData
revealed(results) ==
    [temperature |-> results[1], humidity |-> results[2],
     vegetation |-> results[3], historicalFires |-> results[4],
     isRevealed |-> TRUE]

\* the tally after the lazy initialisation and the FHE.add
tallied(count) ==
    add(IF isInitialized(count) THEN count ELSE asEuint32(0), asEuint32(1))

\* decryptData takes the storage pointer eData and then clears the record
eDataDeleted(dataId) == ZeroEncryptedData

\* EncryptedData storage eData: decryptData takes the pointer and writes
\* nothing through it
eData(dataId) == encryptedDataset[dataId]

decryptData(requestId, cleartexts, proof) ==
    LET dataId == requestToDataId[requestId]
        why == decryptDataRevert(requestId, cleartexts, proof)
        verified == /\ why \notin {"Invalid request", "Already decrypted"}
                    /\ checkSignatures(requestId, cleartexts, proof)
        results == abiDecodeStringArray(cleartexts).arr
        dData == revealed(results)
        riskCategory == computeRiskCategory(dData)
    IN
    IF why # "" THEN
        /\ last' = Receipt("decryptData", requestId, "", verified, why)
        /\ UNCHANGED <<contractState, blockTimestamp, resolutions>>
    ELSE
        /\ decryptedDataset' = [decryptedDataset EXCEPT ![dataId] = dData]
        /\ riskCategories' =
              IF isInitialized(encryptedRiskCategoryCount[riskCategory])
              THEN riskCategories
              ELSE Append(riskCategories, riskCategory)
        /\ encryptedRiskCategoryCount' =
              [encryptedRiskCategoryCount EXCEPT ![riskCategory] = tallied(@)]
        /\ log' = Append(log, DataDecryptedEvent(dataId))
        /\ resolutions' = [resolutions EXCEPT ![requestId] = @ + 1]
        /\ encryptedDataset' = [encryptedDataset EXCEPT ![dataId] = eData(dataId)]
        /\ last' = Receipt("decryptData", requestId, "", verified, "ok")
        /\ UNCHANGED <<dataCount, requestToDataId, nextRequestId,
                       oracleRequests, blockTimestamp>>

(* ------------------------ Category tally path -------------------------- *)

\* requestRiskCategoryDecryption with its require left out
requestRiskCategoryDecryptionNoGuard(category) == ""

\* the require of requestRiskCategoryDecryption
requestRiskCategoryDecryptionRevert(category) ==
    IF isInitialized(encryptedRiskCategoryCount[category]) THEN ""
    ELSE "Category not found"

requestRiskCategoryDecryption(category) ==
    LET count == encryptedRiskCategoryCount[category]
        why == requestRiskCategoryDecryptionRevert(category)
        reqId == nextRequestId
    IN
    IF why # "" THEN
        /\ last' = Receipt("requestRiskCategoryDecryption", 0, category, FALSE, why)
        /\ UNCHANGED <<contractState, blockTimestamp, resolutions>>
    ELSE
        /\ requestDecryption(<<count>>, "decryptRiskCategory")
        /\ requestToDataId' = [requestToDataId EXCEPT ![reqId] =
                                  bytes32ToUint(keccak256(category))]
        /\ last' = Receipt("requestRiskCategoryDecryption", 0, category, FALSE, "ok")
        /\ UNCHANGED <<dataCount, encryptedDataset, decryptedDataset,
                       encryptedRiskCategoryCount, riskCategories, log,
                       blockTimestamp, resolutions>>

\* getCategoryFromHash returning the first label without comparing hashes
getCategoryFromHashFirst(hash) ==
    IF riskCategories = <<>> THEN "" ELSE riskCategories[1]

\* getCategoryFromHash: the first label of riskCategories whose hash is the
\* given word, "" standing for the revert "Category not found"
getCategoryFromHash(hash) ==
    LET hits == {i \in 1..Len(riskCategories) :
                    bytes32ToUint(keccak256(riskCategories[i])) = hash}
    IN IF hits = {} THEN ""
       ELSE riskCategories[CHOOSE i \in hits : \A j \in hits : i <= j]

\* the lookup, the signature check and the decoding of decryptRiskCategory
decryptRiskCategoryRevert(requestId, cleartexts, proof) ==
    LET categoryHash == requestToDataId[requestId] IN
    IF getCategoryFromHash(categoryHash) = "" THEN "Category not found"
    ELSE IF ~checkSignatures(requestId, cleartexts, proof) THEN "Invalid signature"
    ELSE IF ~abiDecodeUint32(cleartexts).ok THEN "abi.decode"
    ELSE ""

decryptRiskCategory(requestId, cleartexts, proof) ==
    LET why == decryptRiskCategoryRevert(requestId, cleartexts, proof)
        verified == /\ why # "Category not found"
                    /\ checkSignatures(requestId, cleartexts, proof)
    IN
    /\ last' = Receipt("decryptRiskCategory", requestId, "", verified,
                       IF why # "" THEN why ELSE "ok")
    /\ UNCHANGED <<contractState, blockTimestamp, resolutions>>

(* --------------------------- specification ----------------------------- *)

Submit ==
    /\ \E h \in HandleInputs, t \in blockTimestamp..MaxTime :
          submitEncryptedData(h, t)
    /\ UNCHANGED frontendVars

\* the ids a caller asks to reveal: 0, every existing record, the id the next
\* submit will allocate, and the pseudo-id of the label "High"
RevealTargets ==
    {d \in 0..MaxData : d <= dataCount + 1}
        \cup {bytes32ToUint(keccak256("High"))}

RequestReveal ==
    /\ \E dataId \in RevealTargets : requestDataDecryption(dataId)
    /\ UNCHANGED frontendVars

RevealCallback ==
    /\ \E requestId \in RequestIds, cleartexts \in Cleartexts :
          \E proof \in ProofsFor(requestId, cleartexts) :
              decryptData(requestId, cleartexts, proof)
    /\ UNCHANGED frontendVars

RequestCategoryReveal ==
    /\ \E category \in Labels : requestRiskCategoryDecryption(category)
    /\ UNCHANGED frontendVars

CategoryRevealCallback ==
    /\ \E requestId \in RequestIds, cleartexts \in Cleartexts :
          \E proof \in ProofsFor(requestId, cleartexts) :
              decryptRiskCategory(requestId, cleartexts, proof)
    /\ UNCHANGED frontendVars

Next ==
    \/ Submit
    \/ RequestReveal
    \/ RevealCallback
    \/ RequestCategoryReveal
    \/ CategoryRevealCallback

Spec == Init /\ [][Next]_vars

\* the oracle answers the request r it registered for decryptData: the
\* callback with the decrypted fields and the signature over exactly them
OracleDelivers(r) ==
    /\ oracleRequests[r].selector = "decryptData"
    /\ \E cleartexts \in Cleartexts :
          /\ authentic(r, cleartexts)
          /\ Len(abiDecodeStringArray(cleartexts).arr) >= 4
          /\ decryptData(r, cleartexts, [rid |-> r, clear |-> cleartexts])
    /\ UNCHANGED frontendVars

\* the oracle eventually answers every request it registered
FairSpec == Spec /\ \A r \in 1..MaxReq : WF_vars(OracleDelivers(r))

(* ------------------------- frontend: App.tsx --------------------------- *)

\* contract.getData(key): the bytes last set under key, empty if none
getData(key) == chainData[key]

\* contract.setData(key, value): the store with value under key
setData(key, value) == [chainData EXCEPT ![key] = value]

\* the parse of keysBytes guarded by keysBytes.length > 0, in loadRecords
\* and in submitRecord: an empty array when nothing is stored
parsedKeys(keysBytes) ==
    IF keysBytes.length > 0 THEN parseJSON(keysBytes) ELSE <<>>

\* submitRecord up to its first await: without a provider it alerts and
\* returns; without a signer contract it throws into the catch
submitRecordStart(c, provider, contract) ==
    /\ pc[c] = "idle"
    /\ IF ~provider THEN UNCHANGED pc
       ELSE IF ~contract THEN pc' = [pc EXCEPT ![c] = "error"]
       ELSE pc' = [pc EXCEPT ![c] = "setRecord"]
    /\ UNCHANGED <<chainData, keys, records>>

\* await contract.setData(`risk_${recordId}`, ...): stores the record, or
\* throws (the user rejects the transaction)
submitRecordSetRecord(c, ok) ==
    /\ pc[c] = "setRecord"
    /\ IF ok
       THEN /\ chainData' = setData(RiskKey(c), toUtf8BytesJSON(<<c>>))
            /\ pc' = [pc EXCEPT ![c] = "getKeys"]
       ELSE /\ pc' = [pc EXCEPT ![c] = "error"]
            /\ UNCHANGED chainData
    /\ UNCHANGED <<keys, records>>

\* await contract.getData("risk_keys") and the parse into the local keys
submitRecordGetKeys(c, ok) ==
    /\ pc[c] = "getKeys"
    /\ IF ok
       THEN /\ keys' = [keys EXCEPT ![c] = parsedKeys(getData(RiskKeys))]
            /\ pc' = [pc EXCEPT ![c] = "setKeys"]
       ELSE /\ pc' = [pc EXCEPT ![c] = "error"]
            /\ UNCHANGED keys
    /\ UNCHANGED <<chainData, records>>

\* keys.push(recordId)
pushed(localKeys, recordId) == Append(localKeys, recordId)

\* await contract.setData("risk_keys", ...) with the pushed local keys; on
\* return the status is "success" and loadRecords is awaited
submitRecordSetKeys(c, ok) ==
    /\ pc[c] = "setKeys"
    /\ IF ok
       THEN /\ chainData' = setData(RiskKeys, toUtf8BytesJSON(pushed(keys[c], c)))
            /\ pc' = [pc EXCEPT ![c] = "loadRecords"]
       ELSE /\ pc' = [pc EXCEPT ![c] = "error"]
            /\ UNCHANGED chainData
    /\ UNCHANGED <<keys, records>>

\* the list loadRecords builds: the ids of "risk_keys" whose record bytes are
\* not empty (the order it sorts them into is not represented)
loadedRecords ==
    LET stored == parsedKeys(getData(RiskKeys)) IN
    {stored[i] : i \in {j \in 1..Len(stored) :
                            getData(RiskKey(stored[j])).length > 0}}

\* await loadRecords() at the end of submitRecord: setRecords(list), or the
\* early return when the contract is not available
loadRecords(c, isAvailable) ==
    /\ pc[c] = "loadRecords"
    /\ records' = [records EXCEPT ![c] = IF isAvailable THEN loadedRecords ELSE @]
    /\ pc' = [pc EXCEPT ![c] = "done"]
    /\ UNCHANGED <<chainData, keys>>

\* onClick of the Risk Map button without setFaqOpen(false)
onClickRiskMapKeepsFaq ==
    /\ mapView' = TRUE
    /\ showIntro' = FALSE
    /\ UNCHANGED faqOpen

\* onClick of the Overview button
onClickOverview ==
    /\ showIntro' = TRUE
    /\ mapView' = FALSE
    /\ faqOpen' = FALSE

\* onClick of the Risk Data button
onClickRiskData ==
    /\ showIntro' = FALSE
    /\ mapView' = FALSE
    /\ faqOpen' = FALSE

\* onClick of the Risk Map button
onClickRiskMap ==
    /\ mapView' = TRUE
    /\ showIntro' = FALSE
    /\ faqOpen' = FALSE

\* onClick of the FAQ button
onClickFAQ ==
    /\ faqOpen' = TRUE
    /\ showIntro' = FALSE
    /\ mapView' = FALSE

\* the views the render shows: the intro, the risk data, the map, the FAQ
renderedViews ==
    {v \in {"Overview", "Risk Data", "Risk Map", "FAQ"} :
        \/ v = "Overview" /\ showIntro
        \/ v = "Risk Data" /\ ~showIntro /\ ~mapView /\ ~faqOpen
        \/ v = "Risk Map" /\ mapView
        \/ v = "FAQ" /\ faqOpen}

\* the buttons whose className carries "active"
activeButtons ==
    {v \in {"Overview", "Risk Data", "Risk Map", "FAQ"} :
        \/ v = "Overview" /\ showIntro
        \/ v = "Risk Data" /\ ~showIntro /\ ~mapView /\ ~faqOpen
        \/ v = "Risk Map" /\ mapView
        \/ v = "FAQ" /\ faqOpen}

viewVars == <<showIntro, mapView, faqOpen>>

clientVars == <<chainData, pc, keys, records>>

SubmitRecordStart ==
    /\ \E c \in Clients, provider \in BOOLEAN, contract \in BOOLEAN :
          submitRecordStart(c, provider, contract)
    /\ UNCHANGED <<contractVars, viewVars>>

SubmitRecordSetRecord ==
    /\ \E c \in Clients, ok \in BOOLEAN : submitRecordSetRecord(c, ok)
    /\ UNCHANGED <<contractVars, viewVars>>

SubmitRecordGetKeys ==
    /\ \E c \in Clients, ok \in BOOLEAN : submitRecordGetKeys(c, ok)
    /\ UNCHANGED <<contractVars, viewVars>>

SubmitRecordSetKeys ==
    /\ \E c \in Clients, ok \in BOOLEAN : submitRecordSetKeys(c, ok)
    /\ UNCHANGED <<contractVars, viewVars>>

LoadRecords ==
    /\ \E c \in Clients, isAvailable \in BOOLEAN : loadRecords(c, isAvailable)
    /\ UNCHANGED <<contractVars, viewVars>>

ClickOverview == onClickOverview /\ UNCHANGED <<contractVars, clientVars>>

ClickRiskData == onClickRiskData /\ UNCHANGED <<contractVars, clientVars>>

ClickRiskMap == onClickRiskMap /\ UNCHANGED <<contractVars, clientVars>>

ClickFAQ == onClickFAQ /\ UNCHANGED <<contractVars, clientVars>>

FrontendNext ==
    \/ SubmitRecordStart
    \/ SubmitRecordSetRecord
    \/ SubmitRecordGetKeys
    \/ SubmitRecordSetKeys
    \/ LoadRecords
    \/ ClickOverview
    \/ ClickRiskData
    \/ ClickRiskMap
    \/ ClickFAQ

FrontendSpec == Init /\ [][FrontendNext]_vars

(* ------------------------------ properties ----------------------------- *)

\* the request id was returned to a successful requestDataDecryption
issuedByRequestReveal(r) == oracleRequests[r].selector = "decryptData"

\* no request produced the request id
neverIssued(r) == oracleRequests[r] = NoOracleRequest

isDataSubmitted(e) == e.name = "DataSubmitted"

\* C1: a callback carrying a request id that requestDataDecryption recorded for
\* a record id (id # 0, the reserved "no record"), with a valid proof over
\* cleartexts that decode to at least four strings, while the record is still
\* sealed, succeeds; afterwards getDecryptedData(id) is exactly the four
\* strings and true, and DataDecrypted(id) is the newest log entry.
C1_RevealStoresCleartexts ==
    [][(last'.op = "decryptData")
       => \A c \in Cleartexts :
            LET r == last'.id
                d == requestToDataId[r]
                p == [rid |-> r, clear |-> c]
                results == abiDecodeStringArray(c).arr
            IN (/\ issuedByRequestReveal(r)
                /\ d # 0
                /\ ~decryptedDataset[d].isRevealed
                /\ checkSignatures(r, c, p)
                /\ abiDecodeStringArray(c).ok
                /\ Len(results) >= 4
                /\ decryptData(r, c, p))
               => /\ last'.result = "ok"
                  /\ getDecryptedDataIn(decryptedDataset', d) =
                        <<results[1], results[2], results[3], results[4], TRUE>>
                  /\ log' = Append(log, DataDecryptedEvent(d))]_vars

\* C1 witness: a callback for a submitted record has just been accepted and
\* the record reads back the scenario's four strings
C1_Witness ==
    /\ last.op = "decryptData"
    /\ last.result = "ok"
    /\ requestToDataId[last.id] \in 1..dataCount
    /\ getDecryptedData(requestToDataId[last.id]) = <<"20", "55", "0.3", "2", TRUE>>
    /\ log[Len(log)] = DataDecryptedEvent(requestToDataId[last.id])

\* C2: isRevealed is write-once-true: once a record is revealed, it stays
\* revealed with the same four cleartext fields in every later state.
C2_WriteOnceRevealed ==
    [][\A d \in DataIds :
        decryptedDataset[d].isRevealed
            => decryptedDataset'[d] = decryptedDataset[d]]_vars

\* C3: a callback whose request id maps to an already revealed record fails
\* with "Already decrypted" whatever proof and cleartexts it carries, and
\* leaves storage, oracle registrations and the log unchanged.
C3_ReplayRejected ==
    [][(/\ last'.op = "decryptData"
        /\ decryptedDataset[requestToDataId[last'.id]].isRevealed)
       => /\ last'.result = "Already decrypted"
          /\ UNCHANGED contractState]_vars

\* C3 witness: a callback with a valid proof has just been rejected as a replay
C3_Witness ==
    /\ last.op = "decryptData"
    /\ last.result = "Already decrypted"
    /\ decryptedDataset[requestToDataId[last.id]].isRevealed

\* C4: for every request id, at most one callback carrying it changes state.
C4_AtMostOneResolution == \A r \in RequestIds : resolutions[r] <= 1

\* C5: a callback carrying a request id that no request produced fails with
\* "Invalid request" whatever it carries, and changes nothing.
C5_UnknownRequestRejected ==
    [][(last'.op = "decryptData" /\ neverIssued(last'.id))
       => /\ last'.result = "Invalid request"
          /\ UNCHANGED contractState]_vars

\* C5 witness: such a callback has just been rejected, with records present
C5_Witness ==
    /\ last.op = "decryptData"
    /\ last.result = "Invalid request"
    /\ neverIssued(last.id)
    /\ dataCount >= 1

\* C6: a callback that does not pass checkSignatures never succeeds and
\* changes nothing; when its request id is pending for a sealed record it
\* fails on the signature check, the record stays unrevealed and empty, and a
\* callback with a valid proof for the same request id is still accepted
\* afterwards.
C6_BadProofAborts ==
    [][(last'.op = "decryptData" /\ ~last'.verified)
       => /\ last'.result # "ok"
          /\ UNCHANGED contractState
          /\ \A r \in RequestIds :
                (/\ r = last'.id
                 /\ issuedByRequestReveal(r)
                 /\ requestToDataId[r] # 0
                 /\ ~decryptedDataset[requestToDataId[r]].isRevealed)
                => /\ last'.result = "Invalid signature"
                   /\ decryptedDataset'[requestToDataId[r]] = ZeroDecryptedData
                   /\ \E c \in Cleartexts :
                        (decryptDataRevert(r, c, [rid |-> r, clear |-> c]) = "")'
      ]_vars

\* C6 witness: a callback for a pending request of a sealed, submitted record
\* has just failed on the signature check
C6_Witness ==
    /\ last.op = "decryptData"
    /\ last.result = "Invalid signature"
    /\ ~last.verified
    /\ issuedByRequestReveal(last.id)
    /\ requestToDataId[last.id] \in 1..dataCount
    /\ ~decryptedDataset[requestToDataId[last.id]].isRevealed

\* C7: requestDataDecryption for id 0 or an id above dataCount fails and
\* registers nothing with the oracle, records no pending request and emits
\* no DecryptionRequested.
C7_RequestNeedsRecord ==
    [][(/\ last'.op = "requestDataDecryption"
        /\ (last'.id = 0 \/ last'.id > dataCount))
       => /\ last'.result # "ok"
          /\ UNCHANGED contractState]_vars

\* C8: requestDataDecryption on an already revealed record fails with
\* "Already decrypted" and changes nothing: no oracle request, no pending
\* entry, no DecryptionRequested. The rejection is decided by the record's
\* flag alone, so it holds for every revealed record in every state.
C8_RequestOnRevealedRejected ==
    [][/\ (/\ last'.op = "requestDataDecryption"
           /\ decryptedDataset[last'.id].isRevealed)
          => /\ last'.result = "Already decrypted"
             /\ UNCHANGED contractState
       /\ \A d \in DataIds :
            decryptedDataset'[d].isRevealed
                => (requestDataDecryptionRevert(d) = "Already decrypted")'
      ]_vars

\* C8 witness: a request on a revealed, submitted record has just been rejected
C8_Witness ==
    /\ last.op = "requestDataDecryption"
    /\ last.result = "Already decrypted"
    /\ last.id \in 1..dataCount
    /\ decryptedDataset[last.id].isRevealed

\* C9: the k-th submit creates the record with id k: the DataSubmitted
\* entries of the log carry 1, 2, 3, ... in order, there are dataCount of
\* them, record k holds id k, and id 0 is never assigned.
C9_IdsAllocatedInOrder ==
    LET subs == SelectSeq(log, isDataSubmitted) IN
    /\ Len(subs) = dataCount
    /\ \A k \in 1..Len(subs) : subs[k].id = k /\ encryptedDataset[k].id = k
    /\ encryptedDataset[0] = ZeroEncryptedData
    /\ (last.op = "submitEncryptedData" => last.id = dataCount)

\* C9 witness: two submits with a reveal request and a reveal between them
C9_Witness ==
    /\ dataCount = 2
    /\ \E i, j, k \in 1..Len(log) :
          /\ i < j /\ j < k
          /\ log[i].name = "DataSubmitted" /\ log[i].id = 1
          /\ log[j].name = "DataDecrypted"
          /\ log[k].name = "DataSubmitted" /\ log[k].id = 2

\* C10: dataCount never decreases, every id in 1..dataCount has an
\* EncryptedRecord carrying that id, and every id outside 1..dataCount has
\* the zero EncryptedRecord and the zero RevealedRecord.
C10_RecordsExactlyUpToCount ==
    [][/\ dataCount' >= dataCount
       /\ \A d \in DataIds :
            IF d \in 1..dataCount'
            THEN encryptedDataset'[d].id = d
            ELSE /\ encryptedDataset'[d] = ZeroEncryptedData
                 /\ decryptedDataset'[d] = ZeroDecryptedData]_vars

\* the record ids some accepted callback has revealed, read off the log
revealedIds ==
    {log[i].id : i \in {j \in 1..Len(log) : log[j].name = "DataDecrypted"}}

\* the request id was returned to a successful requestRiskCategoryDecryption
issuedByRequestCategoryReveal(r) ==
    oracleRequests[r].selector = "decryptRiskCategory"

\* C11: the plaintext under each category's tally is the number of distinct
\* record ids revealed into that category (every reveal is classified by
\* computeRiskCategory), which is the number the aggregate path decodes.
C11_TallyCountsRevealedRecords ==
    \A l \in Labels :
        encryptedRiskCategoryCount[l].plain =
            Cardinality({d \in revealedIds :
                            computeRiskCategory(decryptedDataset[d]) = l})

\* C12: getDecryptedData is total on every id, and for every id whose slot
\* is not revealed (a sealed record, id 0, an id above dataCount, a label
\* pseudo-id) it returns four empty strings and false.
C12_UnrevealedReadsEmpty ==
    \A d \in DataIds :
        ~decryptedDataset[d].isRevealed
            => getDecryptedData(d) = <<"", "", "", "", FALSE>>

\* C12 witness: one record revealed with its cleartexts, another one sealed
\* and reading empty, and id 0 reading empty
C12_Witness ==
    /\ dataCount = 2
    /\ \E d, e \in 1..dataCount :
          /\ getDecryptedData(d) = <<"20", "55", "0.3", "2", TRUE>>
          /\ encryptedDataset[e].id = e
          /\ getDecryptedData(e) = <<"", "", "", "", FALSE>>
    /\ getDecryptedData(0) = <<"", "", "", "", FALSE>>

\* C13: requestRiskCategoryDecryption fails with "Category not found" and
\* changes nothing when the label's tally is not initialised, and otherwise
\* succeeds, registering one oracle request over the tally and recording the
\* label's hash under the fresh request id; a tally is initialised exactly
\* when some record has been revealed into its category.
C13_CategoryRequestNeedsTally ==
    [][/\ (last'.op = "requestRiskCategoryDecryption")
          => IF ~isInitialized(encryptedRiskCategoryCount[last'.category])
             THEN /\ last'.result = "Category not found"
                  /\ UNCHANGED contractState
             ELSE /\ last'.result = "ok"
                  /\ nextRequestId' = nextRequestId + 1
                  /\ oracleRequests' = [oracleRequests EXCEPT ![nextRequestId] =
                        [selector |-> "decryptRiskCategory",
                         ciphertexts |->
                            <<encryptedRiskCategoryCount[last'.category]>>]]
                  /\ requestToDataId' = [requestToDataId EXCEPT ![nextRequestId] =
                        bytes32ToUint(keccak256(last'.category))]
       /\ \A l \in Labels :
            isInitialized(encryptedRiskCategoryCount'[l])
                <=> (\E i \in 1..Len(log') :
                        /\ log'[i].name = "DataDecrypted"
                        /\ computeRiskCategory(decryptedDataset'[log'[i].id]) = l)
      ]_vars

\* C13 witness: after a reveal a request for "High" was registered, and a
\* request for "Low", which has no tally, has just been rejected
C13_Witness ==
    /\ last.op = "requestRiskCategoryDecryption"
    /\ last.category = "Low"
    /\ last.result = "Category not found"
    /\ \E r \in RequestIds :
          /\ issuedByRequestCategoryReveal(r)
          /\ requestToDataId[r] = bytes32ToUint(keccak256("High"))

\* C14: under an oracle that eventually answers every registered request,
\* every request id returned to a successful requestDataDecryption for a
\* record is eventually accepted by decryptData.
C14_EveryRequestEventuallyAccepted ==
    \A r \in 1..MaxReq :
        []((/\ issuedByRequestReveal(r)
            /\ requestToDataId[r] \in 1..dataCount)
           => <>(resolutions[r] >= 1))

\* C15: submitEncryptedData succeeds; for n = dataCount + 1 it stores the
\* given handles with id n and the block's timestamp, leaves the revealed
\* slot n empty, appends DataSubmitted(n, timestamp), and leaves every other
\* record, the pending-request index, the tallies and the label list as they
\* were.
C15_SubmitFrame ==
    [][(last'.op = "submitEncryptedData")
       => LET n == dataCount + 1 IN
          /\ last'.result = "ok"
          /\ last'.id = n
          /\ dataCount' = n
          /\ \E h \in HandleInputs :
                encryptedDataset'[n] =
                    [id |-> n,
                     encryptedTemperature |-> [initialized |-> TRUE, plain |-> h[1]],
                     encryptedHumidity |-> [initialized |-> TRUE, plain |-> h[2]],
                     encryptedVegetation |-> [initialized |-> TRUE, plain |-> h[3]],
                     encryptedHistoricalFires |->
                        [initialized |-> TRUE, plain |-> h[4]],
                     timestamp |-> blockTimestamp']
          /\ blockTimestamp' >= 1
          /\ decryptedDataset'[n] = ZeroDecryptedData
          /\ log' = Append(log, [name |-> "DataSubmitted", id |-> n,
                                 timestamp |-> blockTimestamp'])
          /\ \A d \in DataIds \ {n} :
                /\ encryptedDataset'[d] = encryptedDataset[d]
                /\ decryptedDataset'[d] = decryptedDataset[d]
          /\ UNCHANGED <<requestToDataId, encryptedRiskCategoryCount,
                         riskCategories, nextRequestId, oracleRequests>>]_vars

\* C15 witness: the second submit, made after record 1 was revealed and
\* counted
C15_Witness ==
    /\ last.op = "submitEncryptedData"
    /\ last.id = 2
    /\ decryptedDataset[1].isRevealed
    /\ riskCategories = <<"High">>
    /\ encryptedDataset[2].id = 2

\* C16: once a record has been created, its id, its four handles and its
\* timestamp are the same in every later state.
C16_EncryptedRecordImmutable ==
    [][\A d \in DataIds :
        encryptedDataset[d] # ZeroEncryptedData
            => encryptedDataset'[d] = encryptedDataset[d]]_vars

\* C16 witness: with two records stored, one of them has just been revealed
\* and still carries its id, its handles and its timestamp
C16_Witness ==
    /\ last.op = "decryptData"
    /\ last.result = "ok"
    /\ dataCount = 2
    /\ LET d == requestToDataId[last.id] IN
          /\ d \in 1..dataCount
          /\ encryptedDataset[d].id = d
          /\ encryptedDataset[d].encryptedTemperature.initialized
          /\ encryptedDataset[d].timestamp >= 1

\* C17: a successful requestDataDecryption(id) records id under the fresh
\* request id and appends DecryptionRequested(id); the revealed slot of id is
\* still empty and unrevealed, and dataCount, every record, every tally, the
\* label list and every earlier pending entry are unchanged.
C17_RequestRevealFrame ==
    [][(last'.op = "requestDataDecryption" /\ last'.result = "ok")
       => /\ neverIssued(nextRequestId)
          /\ requestToDataId[nextRequestId] = 0
          /\ requestToDataId' =
                [requestToDataId EXCEPT ![nextRequestId] = last'.id]
          /\ log' = Append(log, [name |-> "DecryptionRequested",
                                 id |-> last'.id, timestamp |-> 0])
          /\ decryptedDataset'[last'.id] = ZeroDecryptedData
          /\ UNCHANGED <<dataCount, encryptedDataset, decryptedDataset,
                         encryptedRiskCategoryCount, riskCategories>>]_vars

\* C17 witness: a second request for a stored, sealed record has just been
\* recorded next to an earlier pending entry
C17_Witness ==
    /\ last.op = "requestDataDecryption"
    /\ last.result = "ok"
    /\ last.id \in 1..dataCount
    /\ nextRequestId = 3
    /\ requestToDataId[1] # 0
    /\ requestToDataId[2] = last.id
    /\ log[Len(log)] = DecryptionRequestedEvent(last.id)

\* C18: decryptRiskCategory changes no contract state, whatever it carries.
\* When no label of riskCategories hashes to the word recorded for the
\* request id it fails with "Category not found" before the proof is
\* checked: so for a request id no request produced (word 0) and for one
\* requestDataDecryption recorded for a record id. When a label matches, the
\* outcome is decided by the proof alone.
C18_CategoryCallbackLookup ==
    [][(last'.op = "decryptRiskCategory")
       => LET r == last'.id
              hash == requestToDataId[r]
              known == \E i \in 1..Len(riskCategories) :
                          bytes32ToUint(keccak256(riskCategories[i])) = hash
          IN /\ UNCHANGED contractState
             /\ ~known => (last'.result = "Category not found" /\ ~last'.verified)
             /\ neverIssued(r) => (hash = 0 /\ ~known)
             /\ (issuedByRequestReveal(r) /\ hash \in 0..MaxData) => ~known
             /\ known => /\ last'.result \in {"ok", "Invalid signature"}
                         /\ last'.verified <=> last'.result = "ok"]_vars

\* C18 witness: with "High" in the label list, a callback carrying a request
\* id recorded for a stored record has just failed the lookup
C18_Witness ==
    /\ last.op = "decryptRiskCategory"
    /\ last.result = "Category not found"
    /\ issuedByRequestReveal(last.id)
    /\ requestToDataId[last.id] \in 1..dataCount
    /\ riskCategories = <<"High">>

\* C19: a label is in riskCategories exactly when its tally is initialised,
\* no label is listed twice, the list is empty exactly until the first
\* accepted reveal, and it never holds a label other than "High".
C19_LabelListMirrorsTallies ==
    /\ \A l \in Labels :
          (\E i \in 1..Len(riskCategories) : riskCategories[i] = l)
              <=> encryptedRiskCategoryCount[l].initialized
    /\ \A i, j \in 1..Len(riskCategories) :
          i # j => riskCategories[i] # riskCategories[j]
    /\ (riskCategories = <<>>) <=> (revealedIds = {})
    /\ \A i \in 1..Len(riskCategories) : riskCategories[i] = "High"

\* C19 witness: two reveals have been counted and the list holds "High" once
C19_Witness ==
    /\ riskCategories = <<"High">>
    /\ encryptedRiskCategoryCount["High"] = [initialized |-> TRUE, plain |-> 2]
    /\ ~encryptedRiskCategoryCount["Low"].initialized

\* C20: no callback carrying a request id issued by
\* requestRiskCategoryDecryption is accepted by decryptData; no slot keyed by
\* a label's pseudo-id is ever revealed and no DataDecrypted carries one;
\* every DataDecrypted(id) in the log comes after a DecryptionRequested(id).
C20_RequestKindsNeverCross ==
    /\ \A r \in RequestIds :
          issuedByRequestCategoryReveal(r) => resolutions[r] = 0
    /\ \A d \in DataIds \ (0..MaxData) :
          /\ ~decryptedDataset[d].isRevealed
          /\ d \notin revealedIds
    /\ \A i \in 1..Len(log) :
          log[i].name = "DataDecrypted"
              => \E j \in 1..(i - 1) :
                    /\ log[j].name = "DecryptionRequested"
                    /\ log[j].id = log[i].id

\* C21: once no submitRecord is in flight, the stored "risk_keys" list holds
\* the record id of every submitRecord that completed successfully, so
\* loadRecords builds a list with every one of them.
C21_NoKeyLost ==
    (\A c \in Clients : pc[c] \in {"idle", "done", "error"})
        => \A c \in Clients :
              pc[c] = "done"
                  => /\ \E i \in 1..Len(parsedKeys(getData(RiskKeys))) :
                          parsedKeys(getData(RiskKeys))[i] = c
                     /\ c \in loadedRecords

\* C22: exactly one of the four views is rendered and exactly one button is
\* marked active, and at most one of showIntro, mapView and faqOpen is true.
C22_OneViewAtATime ==
    /\ Cardinality({f \in {"showIntro", "mapView", "faqOpen"} :
                      \/ f = "showIntro" /\ showIntro
                      \/ f = "mapView" /\ mapView
                      \/ f = "faqOpen" /\ faqOpen}) <= 1
    /\ Cardinality(renderedViews) = 1
    /\ Cardinality(activeButtons) = 1
    /\ renderedViews = activeButtons

\* C22 witness: the FAQ is shown, which only a click on FAQ brings about,
\* while submitRecord operations have run
C22_Witness ==
    /\ faqOpen
    /\ renderedViews = {"FAQ"}
    /\ activeButtons = {"FAQ"}
    /\ \E c \in Clients : pc[c] = "done"

====
